---- MODULE Spec2Model ----
(***************************************************************************)
(* A model of the retrieval-and-aggregation pipeline of src/main.go:       *)
(* getPage, getRatedMovies, collectMoviesParallel, mergeMovies,            *)
(* processResults and showResults.                                         *)
(***************************************************************************)
EXTENDS Integers, Sequences, FiniteSets, Bags, TLC

(***************************************************************************)
(* Bounds of the model.                                                    *)
(***************************************************************************)
\* largest number of friends handed to collectMoviesParallel
MaxFriends == 3
\* largest number of page fetches one crawl is followed for
MaxFetches == 4
\* largest source count the worker-count computation is run on
MaxSources == 45
\* longest Observation list handed to mergeMovies
MaxMerge == 4
\* largest friendsNr showResults is run with
MaxFriendsNr == 3
\* pages a pagination crawl is followed for
MaxPageFetches == 4

\* items a pagination crawl is followed for
MaxCrawlItems == 4

\* longest list handed to a scoring function
MaxScoreLen == 3

\* largest number typed at the threshold prompt
MaxTyped == 4

(***************************************************************************)
(* The remote platform: documents, posters, rating classes.                *)
(***************************************************************************)
\* user names; friends is always a prefix of this list
AllFriends == <<"u1", "u2", "u3", "u4", "u5">>

Users == {AllFriends[i] : i \in DOMAIN AllFriends}

\* data-target-link values (item keys)
Keys == {"/film/a/", "/film/b/"}

PageNos == {1, 2, 3}

\* a URL of a rated-items listing: the user and the page of the listing
Urls == Users \X PageNos

\* one space-separated part of a class attribute: whether it carries the
\* "rated-" prefix, and whether what remains is a decimal numeral (and which)
Part(pre, num, val) == [pre |-> pre, num |-> num, val |-> val]

\* li.poster-container: the div's data-target-link, the p span.rating
\* element and its class attribute
Poster(hasLink, link, hasSpan, hasClass, parts) ==
    [hasLink |-> hasLink, link |-> link, hasSpan |-> hasSpan,
     hasClass |-> hasClass, parts |-> parts]

\* a poster with link k rated n: class "rating rated-n"
Rated(k, n) ==
    Poster(TRUE, k, TRUE, TRUE, <<Part(FALSE, FALSE, 0), Part(TRUE, TRUE, n)>>)

\* a poster with link k and no rating element
Unrated(k) == Poster(TRUE, k, FALSE, FALSE, <<>>)

\* a rated poster whose div has no data-target-link
NoLink(n) ==
    Poster(FALSE, "", TRUE, TRUE, <<Part(FALSE, FALSE, 0), Part(TRUE, TRUE, n)>>)

\* a poster with a rating element whose class is just "rating"
BadClass(k) == Poster(TRUE, k, TRUE, TRUE, <<Part(FALSE, FALSE, 0)>>)

\* a poster with a rating element that has no class attribute
NoClass(k) == Poster(TRUE, k, TRUE, FALSE, <<>>)

\* a document: its posters and the href of div.pagination a.next
Doc(posters, hasNext, next) ==
    [posters |-> posters, hasNext |-> hasNext, next |-> next]

(***************************************************************************)
(* Pure helpers.                                                           *)
(***************************************************************************)
Movie(u, r) == [URL |-> u, Rating |-> r]

\* strings.ReplaceAll(part, "rated-", "") then strconv.Atoi: the prefix is
\* dropped whether present or not, the rest parses or does not
Atoi(part) == [ok |-> part.num, val |-> IF part.num THEN part.val ELSE 0]

\* excludeMap, as the set of keys mapped to true
ExcludeMap(excl) == {excl[i] : i \in DOMAIN excl}

\* the callback without the exclusion test
EachPosterOff(s, acc, excludeMap) ==
    IF ~s.hasLink THEN acc
    ELSE IF ~s.hasSpan THEN acc
    ELSE LET seen == [acc EXCEPT !.moviesOnPage = TRUE] IN
         IF ~s.hasClass THEN seen
         ELSE LET rating == Atoi(s.parts[Len(s.parts)]) IN
              IF ~rating.ok THEN seen
              ELSE [seen EXCEPT !.movies = Append(@, Movie(s.link, rating.val))]

\* the Each callback of getRatedMovies on one poster: acc is the pair of the
\* closure's captured variables movies and moviesOnPage
EachPoster(s, acc, excludeMap) ==
    IF ~s.hasLink THEN acc
    ELSE IF ~s.hasSpan THEN acc
    ELSE LET seen == [acc EXCEPT !.moviesOnPage = TRUE] IN
         IF ~s.hasClass THEN seen
         ELSE LET rating == Atoi(s.parts[Len(s.parts)]) IN
              IF ~rating.ok THEN seen
              ELSE IF s.link \in excludeMap THEN seen
              ELSE [seen EXCEPT !.movies = Append(@, Movie(s.link, rating.val))]

RECURSIVE FindEach(_, _, _, _)
\* doc.Find("li.poster-container").Each(...): the callback on every poster
\* from index i on, in document order
FindEach(posters, i, acc, excludeMap) ==
    IF i > Len(posters) THEN acc
    ELSE FindEach(posters, i + 1, EachPoster(posters[i], acc, excludeMap), excludeMap)

(***************************************************************************)
(* The fixed remote the collector is run against: u1 has two pages, u2 a   *)
(* five-star rating (rated-10), u3 an unrated first page with a next-link. *)
(***************************************************************************)
KeyA == "/film/a/"

KeyB == "/film/b/"

FixedSite ==
    [u \in Urls |->
        CASE u = <<"u1", 1>> -> Doc(<<Rated(KeyA, 8), Rated(KeyB, 3)>>, TRUE, <<"u1", 2>>)
          [] u = <<"u1", 2>> -> Doc(<<Rated(KeyB, 7), Unrated(KeyA)>>, FALSE, u)
          [] u = <<"u2", 1>> -> Doc(<<Rated(KeyA, 7), Rated(KeyB, 10)>>, FALSE, u)
          [] u = <<"u3", 1>> -> Doc(<<Unrated(KeyA)>>, TRUE, <<"u3", 2>>)
          [] u = <<"u3", 2>> -> Doc(<<Rated(KeyB, 9)>>, FALSE, u)
          [] u = <<"u4", 1>> ->
                Doc(<<Rated(KeyB, 2), NoLink(4), NoClass(KeyB), BadClass(KeyA)>>, FALSE, u)
          [] OTHER -> Doc(<<Rated(KeyA, 5)>>, FALSE, u)]

(***************************************************************************)
(* State.                                                                  *)
(***************************************************************************)
VARIABLES
    friends,        \* collectMoviesParallel's friends argument
    excludeMovies,  \* its excludeMovies argument
    site,           \* the remote: the document behind every URL
    mainPc,         \* where collectMoviesParallel's own goroutine stands
    numWorkers,     \* numWorkers
    semaphore,      \* number of tokens in the semaphore channel
    moviesChan,     \* the buffered channel's queue of []Movie values
    closed,         \* whether moviesChan is closed
    wg,             \* the WaitGroup counter
    spawned,        \* how many worker goroutines the for loop has started
    closerPc,       \* where the closing goroutine stands
    allMovies,      \* allMovies
    wpc,            \* where each worker goroutine stands
    url,            \* each worker's getRatedMovies url
    movies,         \* each worker's getRatedMovies movies
    fetched,        \* each worker's URLs fetched with success, in order
    broke,          \* whether a worker's crawl left its loop by a failed fetch
    gpPc,           \* getPage: where the call stands
    retry,          \* getPage: retry
    gpLog,          \* getPage: the outcome of every client.Get so far
    gpResult,       \* getPage: what the call returned
    mmPc,           \* mergeMovies: where the call stands
    mmMovies,       \* mergeMovies: the movies slice (sorted in place)
    uniqueMovies,   \* mergeMovies: uniqueMovies
    mmI,            \* mergeMovies: i (0-based, as in the source)
    mmInput,        \* mergeMovies: the movies argument as passed
    srPc,           \* showResults: where the loop stands
    moviesList,     \* showResults: moviesList
    friendsNr,      \* showResults: friendsNr
    threshold,      \* showResults: threshold
    moviesFiltered, \* showResults: moviesFiltered of the latest view
    views,          \* showResults: every (threshold, filtered keys) shown so far
    typed,          \* showResults: the line read last (a threshold line by its kind)
    results,        \* main: what processResults returned
    scPc,           \* a scoring call: where it stands
    scList,         \* a scoring call: its list argument
    wList,          \* a scoring call: the list of weights built from it
    scScore,        \* a scoring call: what it returned
    crPc,           \* a pagination crawl: where it stands
    crKind,         \* a pagination crawl: which of the crawling functions runs
    crSite,         \* a pagination crawl: the document behind every URL
    crUrl,          \* a pagination crawl: url
    crItems,        \* a pagination crawl: the list built so far
    crLog,          \* a pagination crawl: the URLs fetched with success, in order
    crBroke,        \* a pagination crawl: whether a failed fetch ended it
    crLogging       \* a pagination crawl: whether crLog is kept

collectVars ==
    <<friends, excludeMovies, site, mainPc, numWorkers, semaphore, moviesChan,
      closed, wg, spawned, closerPc, allMovies, wpc, url, movies, fetched, broke>>

fetchVars == <<gpPc, retry, gpLog, gpResult>>

mergeVars == <<mmPc, mmMovies, uniqueMovies, mmI, mmInput, results>>

showVars == <<srPc, moviesList, friendsNr, threshold, moviesFiltered, views, typed>>

scoreVars == <<scPc, scList, wList, scScore>>

pagesVars == <<crPc, crKind, crSite, crUrl, crItems, crLog, crBroke, crLogging>>

vars == <<collectVars, fetchVars, mergeVars, showVars, scoreVars, pagesVars>>

Workers == 1..Len(friends)

\* the state on entry to collectMoviesParallel, before line 558
CollectEntry ==
    /\ mainPc = "calc"
    /\ numWorkers = 0
    /\ semaphore = 0
    /\ moviesChan = <<>>
    /\ closed = FALSE
    /\ wg = 0
    /\ spawned = 0
    /\ closerPc = "none"
    /\ allMovies = <<>>
    /\ wpc = [w \in Workers |-> "none"]
    /\ url = [w \in Workers |-> <<friends[w], 1>>]
    /\ movies = [w \in Workers |-> <<>>]
    /\ fetched = [w \in Workers |-> <<>>]
    /\ broke = [w \in Workers |-> FALSE]

(***************************************************************************)
(* collectMoviesParallel: the worker count.                                *)
(***************************************************************************)
Calc558(n) == (n \div 3) + 1

Cap559(w) == IF w > 12 THEN 12 ELSE w

Small562Off(w, n) == IF w <= 2 THEN n ELSE w

Small562(w, n) == IF w < 2 THEN n ELSE w

CalcWorkers ==
    /\ mainPc = "calc"
    /\ numWorkers' = Calc558(Len(friends))
    /\ mainPc' = "cap"
    /\ UNCHANGED <<friends, excludeMovies, site, semaphore, moviesChan, closed,
                   wg, spawned, closerPc, allMovies, wpc, url, movies, fetched, broke>>
    /\ UNCHANGED <<fetchVars, mergeVars, showVars, scoreVars, pagesVars>>

CapWorkers ==
    /\ mainPc = "cap"
    /\ numWorkers' = Cap559(numWorkers)
    /\ mainPc' = "small"
    /\ UNCHANGED <<friends, excludeMovies, site, semaphore, moviesChan, closed,
                   wg, spawned, closerPc, allMovies, wpc, url, movies, fetched, broke>>
    /\ UNCHANGED <<fetchVars, mergeVars, showVars, scoreVars, pagesVars>>

SmallWorkers ==
    /\ mainPc = "small"
    /\ numWorkers' = Small562(numWorkers, Len(friends))
    /\ mainPc' = "spawn"
    /\ UNCHANGED <<friends, excludeMovies, site, semaphore, moviesChan, closed,
                   wg, spawned, closerPc, allMovies, wpc, url, movies, fetched, broke>>
    /\ UNCHANGED <<fetchVars, mergeVars, showVars, scoreVars, pagesVars>>

(***************************************************************************)
(* getRatedMovies: one iteration of its for loop, run by worker w.         *)
(***************************************************************************)
\* line 352: the crawl returns at a page on which moviesOnPage stayed false
StopsAtOff(moviesOnPage) == FALSE

StopsAt(moviesOnPage) == ~moviesOnPage

\* a crawl that drops what it had collected when a fetch fails
CrawlFetchFailsOff(w) ==
    /\ wpc[w] = "crawl"
    /\ Len(fetched[w]) < MaxFetches
    /\ broke' = [broke EXCEPT ![w] = TRUE]
    /\ movies' = [movies EXCEPT ![w] = <<>>]
    /\ wpc' = [wpc EXCEPT ![w] = "send"]
    /\ UNCHANGED <<friends, excludeMovies, site, mainPc, numWorkers, semaphore,
                   moviesChan, closed, wg, spawned, closerPc, allMovies, url,
                   fetched>>
    /\ UNCHANGED <<fetchVars, mergeVars, showVars, scoreVars, pagesVars>>

\* lines 317-320 with a failed getPage: break, then return movies (369);
\* a crawl is followed for MaxFetches fetched pages and no further
CrawlFetchFails(w) ==
    /\ wpc[w] = "crawl"
    /\ Len(fetched[w]) < MaxFetches
    /\ broke' = [broke EXCEPT ![w] = TRUE]
    /\ wpc' = [wpc EXCEPT ![w] = "send"]
    /\ UNCHANGED <<friends, excludeMovies, site, mainPc, numWorkers, semaphore,
                   moviesChan, closed, wg, spawned, closerPc, allMovies, url,
                   movies, fetched>>
    /\ UNCHANGED <<fetchVars, mergeVars, showVars, scoreVars, pagesVars>>

\* lines 317-364 with a document: extract, then return or follow the next-link
CrawlPage(w) ==
    /\ wpc[w] = "crawl"
    /\ Len(fetched[w]) < MaxFetches
    /\ LET doc == site[url[w]]
           acc == FindEach(doc.posters, 1,
                           [movies |-> movies[w], moviesOnPage |-> FALSE],
                           ExcludeMap(excludeMovies))
       IN  /\ fetched' = [fetched EXCEPT ![w] = Append(@, url[w])]
           /\ movies' = [movies EXCEPT ![w] = acc.movies]
           /\ IF StopsAt(acc.moviesOnPage) \/ ~doc.hasNext
                 THEN /\ wpc' = [wpc EXCEPT ![w] = "send"]
                      /\ url' = url
                 ELSE /\ url' = [url EXCEPT ![w] = doc.next]
                      /\ wpc' = wpc
    /\ UNCHANGED <<friends, excludeMovies, site, mainPc, numWorkers, semaphore,
                   moviesChan, closed, wg, spawned, closerPc, allMovies, broke>>
    /\ UNCHANGED <<fetchVars, mergeVars, showVars, scoreVars, pagesVars>>

RECURSIVE GetRatedMovies(_, _, _, _, _)
\* getRatedMovies run alone from url u with movies mv, when the first
\* okFetches calls of getPage succeed and the one after them fails
GetRatedMovies(st, u, mv, excl, okFetches) ==
    IF okFetches = 0 THEN mv
    ELSE LET doc == st[u]
             acc == FindEach(doc.posters, 1,
                             [movies |-> mv, moviesOnPage |-> FALSE],
                             ExcludeMap(excl))
         IN  IF StopsAt(acc.moviesOnPage) \/ ~doc.hasNext
                THEN acc.movies
                ELSE GetRatedMovies(st, doc.next, acc.movies, excl, okFetches - 1)

(***************************************************************************)
(* collectMoviesParallel: the worker goroutines (lines 571-580).           *)
(***************************************************************************)
\* a send on a buffered channel goes through when the buffer has room
HasRoomOff(len, cap) == len <= cap

HasRoom(len, cap) == len < cap

\* line 575: semaphore <- struct{}{}, then getRatedMovies is entered
Acquire(w) ==
    /\ wpc[w] = "acquire"
    /\ HasRoom(semaphore, numWorkers)
    /\ semaphore' = semaphore + 1
    /\ wpc' = [wpc EXCEPT ![w] = "crawl"]
    /\ UNCHANGED <<friends, excludeMovies, site, mainPc, numWorkers, moviesChan,
                   closed, wg, spawned, closerPc, allMovies, url, movies,
                   fetched, broke>>
    /\ UNCHANGED <<fetchVars, mergeVars, showVars, scoreVars, pagesVars>>

\* line 579: moviesChan <- movies
Send(w) ==
    /\ wpc[w] = "send"
    /\ HasRoom(Len(moviesChan), Len(friends))
    /\ moviesChan' = Append(moviesChan, movies[w])
    /\ wpc' = [wpc EXCEPT ![w] = "release"]
    /\ UNCHANGED <<friends, excludeMovies, site, mainPc, numWorkers, semaphore,
                   closed, wg, spawned, closerPc, allMovies, url, movies,
                   fetched, broke>>
    /\ UNCHANGED <<fetchVars, mergeVars, showVars, scoreVars, pagesVars>>

\* a worker that leaves without giving its slot back
ReleaseOff(w) ==
    /\ wpc[w] = "release"
    /\ semaphore > 0
    /\ wpc' = [wpc EXCEPT ![w] = "wgdone"]
    /\ UNCHANGED <<friends, excludeMovies, site, mainPc, numWorkers, semaphore,
                   moviesChan, closed, wg, spawned, closerPc, allMovies, url,
                   movies, fetched, broke>>
    /\ UNCHANGED <<fetchVars, mergeVars, showVars, scoreVars, pagesVars>>

\* line 576, deferred: <-semaphore
Release(w) ==
    /\ wpc[w] = "release"
    /\ semaphore > 0
    /\ semaphore' = semaphore - 1
    /\ wpc' = [wpc EXCEPT ![w] = "wgdone"]
    /\ UNCHANGED <<friends, excludeMovies, site, mainPc, numWorkers, moviesChan,
                   closed, wg, spawned, closerPc, allMovies, url, movies,
                   fetched, broke>>
    /\ UNCHANGED <<fetchVars, mergeVars, showVars, scoreVars, pagesVars>>

\* line 572, deferred: wg.Done()
WgDone(w) ==
    /\ wpc[w] = "wgdone"
    /\ wg' = wg - 1
    /\ wpc' = [wpc EXCEPT ![w] = "exited"]
    /\ UNCHANGED <<friends, excludeMovies, site, mainPc, numWorkers, semaphore,
                   moviesChan, closed, spawned, closerPc, allMovies, url, movies,
                   fetched, broke>>
    /\ UNCHANGED <<fetchVars, mergeVars, showVars, scoreVars, pagesVars>>

(***************************************************************************)
(* collectMoviesParallel: its own goroutine and the closing goroutine.     *)
(***************************************************************************)
\* lines 569-571: wg.Add(1) and go func(friend)
Spawn ==
    /\ mainPc = "spawn"
    /\ spawned < Len(friends)
    /\ wg' = wg + 1
    /\ spawned' = spawned + 1
    /\ wpc' = [wpc EXCEPT ![spawned + 1] = "acquire"]
    /\ UNCHANGED <<friends, excludeMovies, site, mainPc, numWorkers, semaphore,
                   moviesChan, closed, closerPc, allMovies, url, movies,
                   fetched, broke>>
    /\ UNCHANGED <<fetchVars, mergeVars, showVars, scoreVars, pagesVars>>

\* line 584: go func() { wg.Wait(); close(moviesChan) }
SpawnCloser ==
    /\ mainPc = "spawn"
    /\ spawned = Len(friends)
    /\ closerPc' = "wait"
    /\ mainPc' = "range"
    /\ UNCHANGED <<friends, excludeMovies, site, numWorkers, semaphore,
                   moviesChan, closed, wg, spawned, allMovies, wpc, url, movies,
                   fetched, broke>>
    /\ UNCHANGED <<fetchVars, mergeVars, showVars, scoreVars, pagesVars>>

\* wg.Wait() returns when the counter is zero
WaitReturnsOff(counter) == TRUE

WaitReturns(counter) == counter = 0

\* line 585: wg.Wait()
WgWait ==
    /\ closerPc = "wait"
    /\ WaitReturns(wg)
    /\ closerPc' = "close"
    /\ UNCHANGED <<friends, excludeMovies, site, mainPc, numWorkers, semaphore,
                   moviesChan, closed, wg, spawned, allMovies, wpc, url, movies,
                   fetched, broke>>
    /\ UNCHANGED <<fetchVars, mergeVars, showVars, scoreVars, pagesVars>>

\* line 586: close(moviesChan)
CloseChan ==
    /\ closerPc = "close"
    /\ closed' = TRUE
    /\ closerPc' = "done"
    /\ UNCHANGED <<friends, excludeMovies, site, mainPc, numWorkers, semaphore,
                   moviesChan, wg, spawned, allMovies, wpc, url, movies,
                   fetched, broke>>
    /\ UNCHANGED <<fetchVars, mergeVars, showVars, scoreVars, pagesVars>>

\* lines 591-593: one received value appended to allMovies
Receive ==
    /\ mainPc = "range"
    /\ Len(moviesChan) > 0
    /\ allMovies' = allMovies \o Head(moviesChan)
    /\ moviesChan' = Tail(moviesChan)
    /\ UNCHANGED <<friends, excludeMovies, site, mainPc, numWorkers, semaphore,
                   closed, wg, spawned, closerPc, wpc, url, movies, fetched, broke>>
    /\ UNCHANGED <<fetchVars, mergeVars, showVars, scoreVars, pagesVars>>

\* lines 591, 595: the range ends on the closed, drained channel
Return ==
    /\ mainPc = "range"
    /\ Len(moviesChan) = 0
    /\ closed
    /\ mainPc' = "returned"
    /\ UNCHANGED <<friends, excludeMovies, site, numWorkers, semaphore,
                   moviesChan, closed, wg, spawned, closerPc, allMovies, wpc,
                   url, movies, fetched, broke>>
    /\ UNCHANGED <<fetchVars, mergeVars, showVars, scoreVars, pagesVars>>

\* the other components, not running
FetchOff == gpPc = "off" /\ retry = 0 /\ gpLog = <<>> /\ gpResult = "none"

MergeOff ==
    /\ mmPc = "off"
    /\ mmMovies = <<>>
    /\ uniqueMovies = <<>>
    /\ mmI = 0
    /\ mmInput = <<>>
    /\ results = <<>>

ShowOff ==
    /\ srPc = "off"
    /\ moviesList = <<>>
    /\ friendsNr = 0
    /\ threshold = 0
    /\ moviesFiltered = <<>>
    /\ views = {}
    /\ typed = ""

ScoreOff ==
    scPc = "off" /\ scList = <<>> /\ wList = <<>> /\ scScore = [num |-> 0, den |-> 1]

PagesOff ==
    /\ crPc = "off"
    /\ crKind = "none"
    /\ crSite = <<>>
    /\ crUrl = 0
    /\ crItems = <<>>
    /\ crLog = <<>>
    /\ crBroke = FALSE
    /\ crLogging = FALSE

ExcludeChoices == {<<>>, <<KeyA>>, <<KeyB, KeyA>>}

\* collectMoviesParallel called on up to MaxFriends friends, on the fixed remote
Init ==
    /\ \E n \in 0..MaxFriends : friends = SubSeq(AllFriends, 1, n)
    /\ excludeMovies \in ExcludeChoices
    /\ site = FixedSite
    /\ CollectEntry
    /\ FetchOff /\ MergeOff /\ ShowOff /\ ScoreOff /\ PagesOff

Next ==
    \/ CalcWorkers
    \/ CapWorkers
    \/ SmallWorkers
    \/ Spawn
    \/ SpawnCloser
    \/ WgWait
    \/ CloseChan
    \/ Receive
    \/ Return
    \/ \E w \in Workers : Acquire(w)
    \/ \E w \in Workers : CrawlFetchFails(w)
    \/ \E w \in Workers : CrawlPage(w)
    \/ \E w \in Workers : Send(w)
    \/ \E w \in Workers : Release(w)
    \/ \E w \in Workers : WgDone(w)

Spec == Init /\ [][Next]_vars

\* the steps of collectMoviesParallel's own goroutine
MainSteps == CalcWorkers \/ CapWorkers \/ SmallWorkers \/ Spawn \/ SpawnCloser \/ Receive \/ Return

\* the steps of the closing goroutine (lines 584-587)
CloserSteps == WgWait \/ CloseChan

\* the steps of the worker goroutine of friend w (lines 571-580)
WorkerSteps(w) ==
    /\ w \in Workers
    /\ \/ Acquire(w)
       \/ CrawlFetchFails(w)
       \/ CrawlPage(w)
       \/ Send(w)
       \/ Release(w)
       \/ WgDone(w)

\* collectMoviesParallel called on up to MaxFriends friends with nothing to
\* exclude, on the fixed remote, where every crawl ends
InitFair ==
    /\ \E n \in 0..MaxFriends : friends = SubSeq(AllFriends, 1, n)
    /\ excludeMovies = <<>>
    /\ site = FixedSite
    /\ CollectEntry
    /\ FetchOff /\ MergeOff /\ ShowOff /\ ScoreOff /\ PagesOff

\* the Go scheduler runs every goroutine that stays able to run
SpecFair ==
    /\ InitFair
    /\ [][Next]_vars
    /\ WF_vars(MainSteps)
    /\ WF_vars(CloserSteps)
    /\ \A w \in 1..MaxFriends : WF_vars(WorkerSteps(w))

(***************************************************************************)
(* One getRatedMovies crawl, collected alone, against every arrangement of *)
(* three pages the remote can present for u1.                              *)
(***************************************************************************)
PosterChoices ==
    { <<>>,
      <<Rated(KeyA, 8)>>,
      <<Rated(KeyB, 3), Rated(KeyA, 10)>>,
      <<Unrated(KeyA), NoLink(4)>>,
      <<NoClass(KeyA), BadClass(KeyB)>> }

\* the next-link of page p: none, the page after it, or back to page 1
NextChoices(p) ==
    { Doc(<<>>, FALSE, <<"u1", 1>>),
      Doc(<<>>, TRUE, <<"u1", IF p + 1 \in PageNos THEN p + 1 ELSE p>>),
      Doc(<<>>, TRUE, <<"u1", 1>>) }

DocChoices(p) ==
    { Doc(ps, d.hasNext, d.next) : ps \in PosterChoices, d \in NextChoices(p) }

InitCrawl ==
    /\ friends = <<"u1">>
    /\ excludeMovies \in {<<>>, <<KeyA>>}
    /\ \E d1 \in DocChoices(1), d2 \in DocChoices(2), d3 \in DocChoices(3) :
          site = [u \in Urls |->
                    CASE u = <<"u1", 1>> -> d1
                      [] u = <<"u1", 2>> -> d2
                      [] u = <<"u1", 3>> -> d3
                      [] OTHER -> FixedSite[u]]
    /\ CollectEntry
    /\ FetchOff /\ MergeOff /\ ShowOff /\ ScoreOff /\ PagesOff

SpecCrawl == InitCrawl /\ [][Next]_vars

(***************************************************************************)
(* The worker count alone (lines 557-564), for every source count up to    *)
(* MaxSources.                                                             *)
(***************************************************************************)
InitWorkers ==
    /\ \E n \in 0..MaxSources : friends = [i \in 1..n |-> "u1"]
    /\ excludeMovies = <<>>
    /\ site = FixedSite
    /\ CollectEntry
    /\ FetchOff /\ MergeOff /\ ShowOff /\ ScoreOff /\ PagesOff

NextWorkers == CalcWorkers \/ CapWorkers \/ SmallWorkers

SpecWorkers == InitWorkers /\ [][NextWorkers]_vars

(***************************************************************************)
(* getPage (lines 85-104).                                                 *)
(***************************************************************************)
\* the ceiling of the retry loop
MaxRetries == 10

\* how a client.Get can end without a 200: a transport error (err != nil)
\* or a response with another status code
FailedGets == {"error", "status"}

\* lines 91-100: client.Get fails or answers with a non-200 status; the
\* message is printed, the goroutine sleeps and retry is incremented
GetFails ==
    /\ gpPc = "loop"
    /\ retry < MaxRetries
    /\ \E o \in FailedGets : gpLog' = Append(gpLog, o)
    /\ retry' = retry + 1
    /\ UNCHANGED <<gpPc, gpResult>>
    /\ UNCHANGED <<collectVars, mergeVars, showVars, scoreVars, pagesVars>>

\* lines 91-95: client.Get answers 200 and getPage returns what
\* goquery.NewDocumentFromReader(resp.Body) returns: a document, or a nil
\* document and the error of reading the body
GetOk ==
    /\ gpPc = "loop"
    /\ retry < MaxRetries
    /\ gpLog' = Append(gpLog, "200")
    /\ gpResult' \in {"doc", "error"}
    /\ gpPc' = "done"
    /\ UNCHANGED retry
    /\ UNCHANGED <<collectVars, mergeVars, showVars, scoreVars, pagesVars>>

\* lines 90, 103: the loop condition fails, "no connection available"
GiveUp ==
    /\ gpPc = "loop"
    /\ retry >= MaxRetries
    /\ gpResult' = "error"
    /\ gpPc' = "done"
    /\ UNCHANGED <<retry, gpLog>>
    /\ UNCHANGED <<collectVars, mergeVars, showVars, scoreVars, pagesVars>>

\* the collector, not running
CollectOff ==
    /\ friends = <<>>
    /\ excludeMovies = <<>>
    /\ site = FixedSite
    /\ numWorkers = 0 /\ semaphore = 0 /\ moviesChan = <<>> /\ closed = FALSE
    /\ wg = 0 /\ spawned = 0 /\ closerPc = "none" /\ allMovies = <<>>
    /\ mainPc = "off"
    /\ wpc = <<>> /\ url = <<>> /\ movies = <<>> /\ fetched = <<>> /\ broke = <<>>

InitFetch ==
    /\ gpPc = "loop"
    /\ retry = 0
    /\ gpLog = <<>>
    /\ gpResult = "none"
    /\ CollectOff /\ MergeOff /\ ShowOff /\ ScoreOff /\ PagesOff

NextFetch == GetFails \/ GetOk \/ GiveUp

SpecFetch == InitFetch /\ [][NextFetch]_vars

(***************************************************************************)
(* mergeMovies (lines 373-400).                                            *)
(***************************************************************************)
KeyC == "/film/c/"

\* the byte order of the item keys, as Go's < on strings gives it
UrlRank(u) == CASE u = KeyA -> 1 [] u = KeyB -> 2 [] u = KeyC -> 3

\* line 376: the less function handed to sort.Slice
UrlLess(a, b) == UrlRank(a.URL) < UrlRank(b.URL)

\* s without its i-th element
Without(s, i) == SubSeq(s, 1, i - 1) \o SubSeq(s, i + 1, Len(s))

\* the slice left as it came
SortByUrlOff(s) == {s}

RECURSIVE SortByUrl(_)
\* lines 375-377: sort.Slice is not stable, so every arrangement of the
\* slice that is ordered by URL is a possible outcome
SortByUrl(s) ==
    IF s = <<>> THEN {<<>>}
    ELSE UNION { { <<s[i]>> \o t : t \in SortByUrl(Without(s, i)) } :
                 i \in {i \in DOMAIN s : \A j \in DOMAIN s : ~UrlLess(s[j], s[i])} }

\* a run that always ends after its first movie
RunEndOff(ms, j, u) == j

RECURSIVE RunEnd(_, _, _)
\* lines 386-389: j (0-based) advanced past the movies with URL u
RunEnd(ms, j, u) ==
    IF j < Len(ms) /\ ms[j + 1].URL = u THEN RunEnd(ms, j + 1, u) ELSE j

\* lines 375-380: the sort, then i := 0
MergeSort ==
    /\ mmPc = "sort"
    /\ mmMovies' \in SortByUrl(mmMovies)
    /\ uniqueMovies' = <<>>
    /\ mmI' = 0
    /\ mmPc' = "loop"
    /\ UNCHANGED <<mmInput, results>>
    /\ UNCHANGED <<collectVars, fetchVars, showVars, scoreVars, pagesVars>>

\* lines 381-397: one iteration of the outer loop
MergeGroup ==
    /\ mmPc = "loop"
    /\ mmI < Len(mmMovies)
    /\ LET movie == mmMovies[mmI + 1]
           j == RunEnd(mmMovies, mmI + 1, movie.URL)
           ratings == [k \in 1..(j - mmI) |-> mmMovies[mmI + k].Rating]
       IN  /\ uniqueMovies' = Append(uniqueMovies, [URL |-> movie.URL, Ratings |-> ratings])
           /\ mmI' = j
    /\ UNCHANGED <<mmPc, mmMovies, mmInput, results>>
    /\ UNCHANGED <<collectVars, fetchVars, showVars, scoreVars, pagesVars>>

\* lines 381, 399: the loop ends and uniqueMovies is returned
MergeReturn ==
    /\ mmPc = "loop"
    /\ mmI >= Len(mmMovies)
    /\ mmPc' = "done"
    /\ UNCHANGED <<mmMovies, uniqueMovies, mmI, mmInput, results>>
    /\ UNCHANGED <<collectVars, fetchVars, showVars, scoreVars, pagesVars>>

MergeRatings == {7, 8}

MergeInputs ==
    UNION { [1..n -> {Movie(k, r) : k \in {KeyA, KeyB, KeyC}, r \in MergeRatings}] :
            n \in 0..MaxMerge }

InitMerge ==
    /\ mmInput \in MergeInputs
    /\ mmMovies = mmInput
    /\ mmPc = "sort"
    /\ uniqueMovies = <<>>
    /\ mmI = 0
    /\ results = <<>>
    /\ CollectOff /\ FetchOff /\ ShowOff /\ ScoreOff /\ PagesOff

(***************************************************************************)
(* avg and processResults (lines 40-49, 403-417).                          *)
(***************************************************************************)
RECURSIVE SumOf(_, _)
SumOf(list, i) == IF i > Len(list) THEN 0 ELSE list[i] + SumOf(list, i + 1)

\* avg: float64(sum)/float64(len(list)), kept as the exact quotient sum/len
\* (the division is correctly rounded and the operands are small, so two
\* quotients compare as floats the way they compare as fractions)
Avg(list) ==
    IF Len(list) = 0 THEN [num |-> 0, den |-> 1]
    ELSE [num |-> SumOf(list, 1), den |-> Len(list)]

ProcessResults(um) ==
    [i \in DOMAIN um |->
        [AvgRating |-> Avg(um[i].Ratings), VoteCount |-> Len(um[i].Ratings),
         URL |-> um[i].URL, Ratings |-> um[i].Ratings]]

\* main, line 674: processResults is called with what mergeMovies returned
Process ==
    /\ mmPc = "done"
    /\ results' = ProcessResults(uniqueMovies)
    /\ mmPc' = "processed"
    /\ UNCHANGED <<mmMovies, uniqueMovies, mmI, mmInput>>
    /\ UNCHANGED <<collectVars, fetchVars, showVars, scoreVars, pagesVars>>

NextMerge == MergeSort \/ MergeGroup \/ MergeReturn \/ Process

SpecMerge == InitMerge /\ [][NextMerge]_vars

(***************************************************************************)
(* weighted (lines 62-74).                                                 *)
(***************************************************************************)
\* line 66: weights, indexed from 1 here
Weights == <<100, 95, 80, 65, 40, 20, 5, 0, 0, 0>>

MappedOff(i) == IF i >= 0 /\ i < Len(Weights) THEN <<Weights[i + 1]>> ELSE <<0>>

\* lines 69-71: what one rating adds to wList
Mapped(i) == IF i >= 0 /\ i < Len(Weights) THEN <<Weights[i + 1]>> ELSE <<>>

RECURSIVE MapRatings(_)
\* lines 67-72: the loop that builds wList
MapRatings(list) ==
    IF list = <<>> THEN <<>> ELSE Mapped(Head(list)) \o MapRatings(Tail(list))

\* weighted, called with scList
Weighted ==
    /\ scPc = "call"
    /\ wList' = (IF Len(scList) = 0 THEN <<>> ELSE MapRatings(scList))
    /\ scScore' = (IF Len(scList) = 0 THEN [num |-> 0, den |-> 1] ELSE Avg(wList'))
    /\ scPc' = "done"
    /\ UNCHANGED scList
    /\ UNCHANGED <<collectVars, fetchVars, mergeVars, showVars, pagesVars>>

\* the ratings a list handed to weighted is drawn from
ScoreRatings == {0 - 1, 0, 2, 6, 9, 10, 15}

InitScore ==
    /\ scList \in UNION {[1..n -> ScoreRatings] : n \in 0..MaxScoreLen}
    /\ wList = <<>>
    /\ scScore = [num |-> 0, den |-> 1]
    /\ scPc = "call"
    /\ CollectOff /\ FetchOff /\ MergeOff /\ ShowOff /\ PagesOff

NextScore == Weighted

SpecScore == InitScore /\ [][NextScore]_vars

(***************************************************************************)
(* checkNumber and showResults (lines 420-506).                            *)
(***************************************************************************)
\* a trimmed input line: whether strconv.Atoi accepts it, and its value
Typed(num, val) == [num |-> num, val |-> val]

\* checkNumber
CheckNumber(thresholdStr, nr) ==
    IF ~thresholdStr.num THEN [threshold |-> 0, valid |-> FALSE]
    ELSE IF thresholdStr.val > nr THEN [threshold |-> 0, valid |-> FALSE]
    ELSE [threshold |-> thresholdStr.val, valid |-> TRUE]

KeepsOff(voteCount, t) == voteCount > t

\* line 459: the filter's test
Keeps(voteCount, t) == voteCount >= t

\* lines 457-462
FilterMovies(list, t) == SelectSeq(list, LAMBDA m : Keeps(m.VoteCount, t))

AvgGreater(a, b) == a.num * b.den > b.num * a.den

ResultLessOff(a, b) ==
    IF a.AvgRating.num * b.AvgRating.den # b.AvgRating.num * a.AvgRating.den
       THEN AvgGreater(a.AvgRating, b.AvgRating)
       ELSE a.VoteCount < b.VoteCount

\* lines 465-470: the less function handed to sort.Slice
ResultLess(a, b) ==
    IF a.AvgRating.num * b.AvgRating.den # b.AvgRating.num * a.AvgRating.den
       THEN AvgGreater(a.AvgRating, b.AvgRating)
       ELSE a.VoteCount > b.VoteCount

RECURSIVE SortResults(_)
\* lines 465-470: every arrangement ordered by ResultLess is a possible
\* outcome of the unstable sort
SortResults(s) ==
    IF s = <<>> THEN {<<>>}
    ELSE UNION { { <<s[i]>> \o t : t \in SortResults(Without(s, i)) } :
                 i \in {i \in DOMAIN s : \A j \in DOMAIN s : ~ResultLess(s[j], s[i])} }

KeysOf(list) == {list[i].URL : i \in DOMAIN list}

\* what can be typed at the threshold prompt
ThresholdInputs ==
    {Typed(FALSE, 0)} \cup {Typed(TRUE, v) : v \in (0 - 1)..MaxTyped}

\* lines 444-454: one line read in the inner loop, which repeats while
\* threshold is 0
ReadThreshold ==
    /\ srPc = "AwaitThreshold"
    /\ \E thresholdStr \in ThresholdInputs :
          LET r == CheckNumber(thresholdStr, friendsNr)
              t == IF r.valid THEN r.threshold ELSE 0
          IN  /\ threshold' = t
              /\ srPc' = IF t = 0 THEN "AwaitThreshold" ELSE "ShowRanked"
              /\ typed' = IF thresholdStr.num THEN "number" ELSE "text"
    /\ UNCHANGED <<moviesList, friendsNr, moviesFiltered, views>>
    /\ UNCHANGED <<collectVars, fetchVars, mergeVars, scoreVars, pagesVars>>

ShowRankedOff ==
    /\ srPc = "ShowRanked"
    /\ moviesFiltered' \in SortResults(FilterMovies(moviesList, threshold))
    /\ views' = views \cup {[t |-> threshold, keys |-> KeysOf(moviesFiltered')]}
    /\ srPc' = "AwaitAction"
    /\ moviesList' = moviesFiltered'
    /\ UNCHANGED <<friendsNr, threshold, typed>>
    /\ UNCHANGED <<collectVars, fetchVars, mergeVars, scoreVars, pagesVars>>

\* lines 456-483: filter, sort and print
ShowRanked ==
    /\ srPc = "ShowRanked"
    /\ moviesFiltered' \in SortResults(FilterMovies(moviesList, threshold))
    /\ views' = views \cup {[t |-> threshold, keys |-> KeysOf(moviesFiltered')]}
    /\ srPc' = "AwaitAction"
    /\ UNCHANGED <<moviesList, friendsNr, threshold, typed>>
    /\ UNCHANGED <<collectVars, fetchVars, mergeVars, scoreVars, pagesVars>>

\* lines typed at the action prompt that are neither "x" nor "s"
OtherLines == {"2", "", "y"}

\* lines 487-491: "x" is typed
AskQuit ==
    /\ srPc = "AwaitAction"
    /\ srPc' = "ConfirmQuit"
    /\ typed' = "x"
    /\ UNCHANGED <<moviesList, friendsNr, threshold, moviesFiltered, views>>
    /\ UNCHANGED <<collectVars, fetchVars, mergeVars, scoreVars, pagesVars>>

ConfirmQuitOff ==
    /\ srPc = "ConfirmQuit"
    /\ \E r \in {"y", "n"} :
          /\ typed' = r
          /\ srPc' = "Ended"
    /\ UNCHANGED <<moviesList, friendsNr, threshold, moviesFiltered, views>>
    /\ UNCHANGED <<collectVars, fetchVars, mergeVars, scoreVars, pagesVars>>

\* lines 492-497: "y" confirms and showResults returns; anything else goes
\* round the outer loop with threshold unchanged, so the view is shown again
ConfirmQuit ==
    /\ srPc = "ConfirmQuit"
    /\ \E r \in {"y", "n"} :
          /\ typed' = r
          /\ srPc' = IF r = "y" THEN "Ended" ELSE "ShowRanked"
    /\ UNCHANGED <<moviesList, friendsNr, threshold, moviesFiltered, views>>
    /\ UNCHANGED <<collectVars, fetchVars, mergeVars, scoreVars, pagesVars>>

\* lines 498-500: "s" is typed, saveResults runs and showResults returns
Save ==
    /\ srPc = "AwaitAction"
    /\ srPc' = "Exported"
    /\ typed' = "s"
    /\ UNCHANGED <<moviesList, friendsNr, threshold, moviesFiltered, views>>
    /\ UNCHANGED <<collectVars, fetchVars, mergeVars, scoreVars, pagesVars>>

\* lines 501-504: anything else is typed; threshold is reset and the typed
\* line itself is not used
NewThreshold ==
    /\ srPc = "AwaitAction"
    /\ threshold' = 0
    /\ srPc' = "AwaitThreshold"
    /\ \E question \in OtherLines : typed' = question
    /\ UNCHANGED <<moviesList, friendsNr, moviesFiltered, views>>
    /\ UNCHANGED <<collectVars, fetchVars, mergeVars, scoreVars, pagesVars>>

\* rating lists a merged group can carry
GroupChoices == {<<>>, <<7, 8>>, <<8>>, <<9, 7, 8>>}

\* the merged groups of keys a, b, c carrying ratings ra, rb, rc (none when empty)
Groups(ra, rb, rc) ==
    (IF ra = <<>> THEN <<>> ELSE <<[URL |-> KeyA, Ratings |-> ra]>>)
    \o (IF rb = <<>> THEN <<>> ELSE <<[URL |-> KeyB, Ratings |-> rb]>>)
    \o (IF rc = <<>> THEN <<>> ELSE <<[URL |-> KeyC, Ratings |-> rc]>>)

InitShow ==
    /\ friendsNr \in 1..MaxFriendsNr
    /\ \E ra \in GroupChoices, rb \in GroupChoices, rc \in {<<>>, <<8>>, <<9>>} :
          \* a friend rates an item once: no group outgrows the friends
          /\ Len(ra) <= friendsNr /\ Len(rb) <= friendsNr
          /\ moviesList = ProcessResults(Groups(ra, rb, rc))
    /\ threshold = 0
    /\ srPc = "AwaitThreshold"
    /\ moviesFiltered = <<>>
    /\ views = {}
    /\ typed = ""
    /\ CollectOff /\ FetchOff /\ MergeOff /\ ScoreOff /\ PagesOff

NextShow ==
    \/ ReadThreshold
    \/ ShowRanked
    \/ AskQuit
    \/ ConfirmQuit
    \/ Save
    \/ NewThreshold

SpecShow == InitShow /\ [][NextShow]_vars

(***************************************************************************)
(* The pagination crawls findFollowing, getAllMovies and getRatedMovies    *)
(* (lines 157-182, 274-303, 306-370), each run alone against a listing of  *)
(* the pages PageNos whose next-links lead anywhere in the listing.        *)
(***************************************************************************)
\* td.table-person: the href of its h3 a, as the pieces between which and
\* around which "/" stands
Person(hasHref, href) == [hasHref |-> hasHref, href |-> href]

\* strings.ReplaceAll(href, "/", "")
ReplaceSlashes(href) == SelectSeq(href, LAMBDA t : t # "/")

RECURSIVE EachPerson(_, _, _)
\* lines 167-172: the callback on every td.table-person from index i on
EachPerson(persons, i, following) ==
    IF i > Len(persons) THEN following
    ELSE EachPerson(persons, i + 1,
                    IF persons[i].hasHref
                       THEN Append(following, ReplaceSlashes(persons[i].href))
                       ELSE following)

RECURSIVE EachContainer(_, _, _)
\* lines 285-289: the callback on every li.poster-container from index i on
EachContainer(posters, i, mv) ==
    IF i > Len(posters) THEN mv
    ELSE EachContainer(posters, i + 1,
                       IF posters[i].hasLink THEN Append(mv, posters[i].link) ELSE mv)

\* the crawl is followed while it is within the model's bounds
Followed == Len(crLog) < MaxPageFetches /\ Len(crItems) < MaxCrawlItems

\* the history of fetched pages, kept only when crLogging
Logged == IF crLogging THEN Append(crLog, crUrl) ELSE crLog

\* a crawl that drops what it had collected when a fetch fails
PageFetchFailsOff ==
    /\ crPc = "loop"
    /\ Followed
    /\ crBroke' = TRUE
    /\ crItems' = <<>>
    /\ crPc' = "returned"
    /\ UNCHANGED <<crKind, crSite, crUrl, crLog, crLogging>>
    /\ UNCHANGED <<collectVars, fetchVars, mergeVars, showVars, scoreVars>>

\* lines 162-165, 280-283, 317-320 with a failed getPage: break, then the
\* return after the loop (181, 302, 369)
PageFetchFails ==
    /\ crPc = "loop"
    /\ Followed
    /\ crBroke' = TRUE
    /\ crPc' = "returned"
    /\ UNCHANGED <<crKind, crSite, crUrl, crItems, crLog, crLogging>>
    /\ UNCHANGED <<collectVars, fetchVars, mergeVars, showVars, scoreVars>>

\* lines 161-179 with a document: one round of findFollowing's loop
FindFollowingPage ==
    /\ crKind = "findFollowing"
    /\ crPc = "loop"
    /\ Followed
    /\ LET doc == crSite[crUrl]
       IN  /\ crItems' = EachPerson(doc.posters, 1, crItems)
           /\ crLog' = Logged
           /\ IF ~doc.hasNext
                 THEN crPc' = "returned" /\ crUrl' = crUrl
                 ELSE crPc' = crPc /\ crUrl' = doc.next
    /\ UNCHANGED <<crKind, crSite, crBroke, crLogging>>
    /\ UNCHANGED <<collectVars, fetchVars, mergeVars, showVars, scoreVars>>

\* a crawl that also ends at a page that added nothing
GetAllMoviesPageOff ==
    /\ crKind = "getAllMovies"
    /\ crPc = "loop"
    /\ Followed
    /\ LET doc == crSite[crUrl]
       IN  /\ crItems' = EachContainer(doc.posters, 1, crItems)
           /\ crLog' = Logged
           /\ IF ~doc.hasNext \/ crItems' = crItems
                 THEN crPc' = "returned" /\ crUrl' = crUrl
                 ELSE crPc' = crPc /\ crUrl' = doc.next
    /\ UNCHANGED <<crKind, crSite, crBroke, crLogging>>
    /\ UNCHANGED <<collectVars, fetchVars, mergeVars, showVars, scoreVars>>

\* lines 279-298 with a document: one round of getAllMovies' loop
GetAllMoviesPage ==
    /\ crKind = "getAllMovies"
    /\ crPc = "loop"
    /\ Followed
    /\ LET doc == crSite[crUrl]
       IN  /\ crItems' = EachContainer(doc.posters, 1, crItems)
           /\ crLog' = Logged
           /\ IF ~doc.hasNext
                 THEN crPc' = "returned" /\ crUrl' = crUrl
                 ELSE crPc' = crPc /\ crUrl' = doc.next
    /\ UNCHANGED <<crKind, crSite, crBroke, crLogging>>
    /\ UNCHANGED <<collectVars, fetchVars, mergeVars, showVars, scoreVars>>

\* lines 316-365 with a document: one round of getRatedMovies' loop, called
\* with nothing to exclude
GetRatedMoviesPage ==
    /\ crKind = "getRatedMovies"
    /\ crPc = "loop"
    /\ Followed
    /\ LET doc == crSite[crUrl]
           acc == FindEach(doc.posters, 1,
                           [movies |-> crItems, moviesOnPage |-> FALSE], {})
       IN  /\ crItems' = acc.movies
           /\ crLog' = Logged
           /\ IF StopsAt(acc.moviesOnPage) \/ ~doc.hasNext
                 THEN crPc' = "returned" /\ crUrl' = crUrl
                 ELSE crPc' = crPc /\ crUrl' = doc.next
    /\ UNCHANGED <<crKind, crSite, crBroke, crLogging>>
    /\ UNCHANGED <<collectVars, fetchVars, mergeVars, showVars, scoreVars>>

CrawlKinds == {"findFollowing", "getAllMovies", "getRatedMovies"}

\* what a page of each listing can hold
EntryChoices(kind) ==
    CASE kind = "findFollowing" ->
            { <<>>,
              <<Person(TRUE, <<"/", "u2", "/">>), Person(FALSE, <<>>)>>,
              <<Person(TRUE, <<"/", "u3", "/">>)>> }
      [] kind = "getAllMovies" ->
            { <<>>, <<Unrated(KeyA), NoLink(4)>>, <<Rated(KeyB, 7)>> }
      [] OTHER ->
            { <<Unrated(KeyA)>>, <<Rated(KeyA, 8)>>, <<BadClass(KeyB)>> }

\* the next-link of a page: none, or the href of any page of the listing
LinkChoices ==
    {Doc(<<>>, FALSE, 1)} \cup {Doc(<<>>, TRUE, q) : q \in PageNos}

InitPagesWith(logging) ==
    /\ crKind \in CrawlKinds
    /\ crSite \in [PageNos -> {Doc(es, d.hasNext, d.next) :
                                  es \in EntryChoices(crKind), d \in LinkChoices}]
    /\ crUrl = 1
    /\ crItems = <<>>
    /\ crLog = <<>>
    /\ crBroke = FALSE
    /\ crPc = "loop"
    /\ crLogging = logging
    /\ CollectOff /\ FetchOff /\ MergeOff /\ ShowOff /\ ScoreOff

InitPages == InitPagesWith(TRUE)

NextPages ==
    \/ PageFetchFails
    \/ FindFollowingPage
    \/ GetAllMoviesPage
    \/ GetRatedMoviesPage

SpecPages == InitPages /\ [][NextPages]_vars

\* the crawls without the history of fetched pages; a round of the loop is
\* taken whenever one can be
InitLoop == InitPagesWith(FALSE)

SpecLoop == InitLoop /\ [][NextPages]_vars /\ WF_vars(NextPages)

(***************************************************************************)
(* Properties.                                                             *)
(***************************************************************************)
RECURSIVE BagOfSeq(_)
BagOfSeq(s) ==
    IF s = <<>> THEN EmptyBag ELSE BagOfSeq(Tail(s)) (+) SetToBag({Head(s)})

RECURSIVE ConcatFrom(_, _, _)
\* f[i] \o f[i+1] \o ... \o f[n]
ConcatFrom(f, i, n) == IF i > n THEN <<>> ELSE f[i] \o ConcatFrom(f, i + 1, n)

\* the workers whose call of getRatedMovies is in progress
Crawling == {w \in Workers : wpc[w] = "crawl"}

\* the workers between their acquire and their release
Holding == {w \in Workers : wpc[w] \in {"crawl", "send", "release"}}

\* C1: at most numWorkers crawls are in progress at once; every worker that
\* is crawling (or has crawled and not yet released) holds exactly one slot
\* of the semaphore, and no other worker holds one.
C1_LimiterBound ==
    /\ Cardinality(Crawling) <= numWorkers
    /\ semaphore = Cardinality(Holding)
    /\ semaphore <= numWorkers

\* the limiter is full and a worker is blocked on it
C1_Witness ==
    /\ Cardinality(Crawling) = numWorkers
    /\ numWorkers < Len(friends)
    /\ \E w \in Workers : wpc[w] = "acquire"

\* C3: moviesChan is closed only when every worker has exited (so none
\* writes after the close), and what collectMoviesParallel returns is, as a
\* multiset, the union of the lists the workers' crawls produced.
C3_FanIn ==
    /\ closed => \A w \in Workers : wpc[w] = "exited"
    /\ mainPc = "returned" =>
          BagOfSeq(allMovies) = BagOfSeq(ConcatFrom(movies, 1, Len(friends)))

\* three sources returned, delivered in another order than the friends list
C3_Witness ==
    /\ mainPc = "returned"
    /\ Len(friends) = 3
    /\ Len(allMovies) >= 4
    /\ allMovies # ConcatFrom(movies, 1, Len(friends))

\* what source w contributes when run alone with the same failure point
Expected(w) ==
    GetRatedMovies(site, <<friends[w], 1>>, <<>>, excludeMovies,
                   IF broke[w] THEN Len(fetched[w]) ELSE MaxFetches)

\* C4: a source whose fetch failed contributes what it had extracted from
\* the pages before the failure, every other source what its crawl yields
\* alone, and the collection is never stuck before it returns.
C4_FailureIsolation ==
    /\ mainPc = "returned" =>
          BagOfSeq(allMovies) =
             BagOfSeq(ConcatFrom([w \in Workers |-> Expected(w)], 1, Len(friends)))
    /\ mainPc # "returned" => ENABLED Next

\* returned with one source failed at its first page, one at a later page
C4_Witness ==
    /\ mainPc = "returned"
    /\ \E w \in Workers : broke[w] /\ fetched[w] = <<>>
    /\ \E w \in Workers : broke[w] /\ Len(fetched[w]) = 1 /\ movies[w] # <<>>
    /\ \E w \in Workers : ~broke[w] /\ movies[w] # <<>>

\* the items a document's posters yield before the exclusion filter
IsRated(s) == s.hasLink /\ s.hasSpan /\ s.hasClass /\ s.parts[Len(s.parts)].num

RECURSIVE RatedItems(_, _)
RatedItems(posters, i) ==
    IF i > Len(posters) THEN <<>>
    ELSE (IF IsRated(posters[i])
             THEN <<Movie(posters[i].link, posters[i].parts[Len(posters[i].parts)].val)>>
             ELSE <<>>) \o RatedItems(posters, i + 1)

\* whether some poster of the document has a link and a rating element
HasRatingElement(doc) ==
    \E i \in DOMAIN doc.posters : doc.posters[i].hasLink /\ doc.posters[i].hasSpan

\* C6, as claimed: every page a crawl went on from had at least one item
\* extracted (the crawl ends at the first page that extracts none).
C6_Claimed ==
    \A w \in Workers : \A i \in 1..(Len(fetched[w]) - 1) :
        RatedItems(site[fetched[w][i]].posters, 1) # <<>>

\* C6, amended: every page a crawl went on from had a poster with a link and
\* a rating element, and a crawl whose latest page has none has ended.
C6_StopsAtUnratedPage ==
    \A w \in Workers :
        /\ \A i \in 1..(Len(fetched[w]) - 1) : HasRatingElement(site[fetched[w][i]])
        /\ (fetched[w] # <<>> /\ ~HasRatingElement(site[fetched[w][Len(fetched[w])]]))
              => wpc[w] # "crawl"

\* a crawl that ended at its third page, which has a next-link and no rating
C6_Witness ==
    /\ wpc[1] = "exited"
    /\ ~broke[1]
    /\ fetched[1] = << <<"u1", 1>>, <<"u1", 2>>, <<"u1", 3>> >>
    /\ site[<<"u1", 3>>].hasNext
    /\ ~HasRatingElement(site[<<"u1", 3>>])
    /\ Len(movies[1]) >= 2

\* C7, as claimed: every Observation has a rating in 0..9.
C7_Claimed ==
    /\ \A i \in DOMAIN allMovies : allMovies[i].Rating \in 0..9
    /\ \A w \in Workers : \A i \in DOMAIN movies[w] : movies[w][i].Rating \in 0..9

RECURSIVE ItemsOfPages(_, _)
\* the items of the pages of a fetch log, in order
ItemsOfPages(log, i) ==
    IF i > Len(log) THEN <<>>
    ELSE RatedItems(site[log[i]].posters, 1) \o ItemsOfPages(log, i + 1)

NotExcluded(m) == m.URL \notin ExcludeMap(excludeMovies)

\* C8: nothing returned has an excluded key, and the returned multiset is
\* that of the items extracted from the fetched pages whose key is not excluded.
C8_ExcludeFilter ==
    mainPc = "returned" =>
       /\ \A i \in DOMAIN allMovies : NotExcluded(allMovies[i])
       /\ BagOfSeq(allMovies) =
             BagOfSeq(SelectSeq(
                ConcatFrom([w \in Workers |-> ItemsOfPages(fetched[w], 1)],
                           1, Len(friends)),
                NotExcluded))

\* returned with items kept and items dropped by the filter
C8_Witness ==
    /\ mainPc = "returned"
    /\ excludeMovies # <<>>
    /\ allMovies # <<>>
    /\ \E w \in Workers : Len(ItemsOfPages(fetched[w], 1)) > Len(movies[w])

\* the worker count as the claim states it
ClaimedW(n) ==
    LET f == (n \div 3) + 1
    IN  IF f < 2 THEN n ELSE IF f > 12 THEN 12 ELSE f

\* C2: once computed, numWorkers is floor(n/3)+1, replaced by n when that is
\* below 2 and capped at 12 otherwise; 5 gives 2, 1 gives 1, 40 gives 12,
\* and it never exceeds 12.
C2_WorkerCount ==
    mainPc = "spawn" =>
       /\ numWorkers = ClaimedW(Len(friends))
       /\ numWorkers <= 12
       /\ Len(friends) = 5 => numWorkers = 2
       /\ Len(friends) = 1 => numWorkers = 1
       /\ Len(friends) = 40 => numWorkers = 12

\* the count computed for 40 sources
C2_Witness == mainPc = "spawn" /\ Len(friends) = 40 /\ numWorkers = 12

\* C5, as claimed: at most 10 attempts, a 200 ends the call with the
\* document, and the call fails only after 10 failed attempts.
C5_Claimed ==
    /\ Len(gpLog) <= MaxRetries
    /\ gpPc = "done" /\ gpLog # <<>> /\ gpLog[Len(gpLog)] = "200" => gpResult = "doc"
    /\ gpPc = "done" /\ gpResult = "error" =>
          /\ Len(gpLog) = MaxRetries
          /\ \A i \in DOMAIN gpLog : gpLog[i] \in FailedGets

RECURSIVE SumLen(_, _)
\* the sum of the lengths of the rating lists of groups i..Len(groups)
SumLen(groups, i) ==
    IF i > Len(groups) THEN 0 ELSE Len(groups[i].Ratings) + SumLen(groups, i + 1)

\* the ratings of the Observations of ms with key k, in order
RatingsOf(ms, k) ==
    LET sel == SelectSeq(ms, LAMBDA m : m.URL = k)
    IN  [i \in DOMAIN sel |-> sel[i].Rating]

\* C9: the groups mergeMovies returns partition its input: the rating lists
\* add up to the input's length, every key of the input has exactly one
\* group, no group has a key the input lacks, and each group's ratings are
\* the multiset of the input's ratings for that key.
C9_Partition ==
    mmPc = "done" =>
       /\ SumLen(uniqueMovies, 1) = Len(mmInput)
       /\ \A i \in DOMAIN mmInput :
             Cardinality({g \in DOMAIN uniqueMovies :
                             uniqueMovies[g].URL = mmInput[i].URL}) = 1
       /\ \A g \in DOMAIN uniqueMovies :
             /\ \E i \in DOMAIN mmInput : mmInput[i].URL = uniqueMovies[g].URL
             /\ BagOfSeq(uniqueMovies[g].Ratings) =
                   BagOfSeq(RatingsOf(mmInput, uniqueMovies[g].URL))

\* an unsorted input with a key rated twice, merged into two groups
C9_Witness ==
    /\ mmPc = "done"
    /\ Len(mmInput) = 3
    /\ mmInput[1].URL = KeyB /\ mmInput[2].URL = KeyA /\ mmInput[3].URL = KeyB
    /\ mmInput[1].Rating # mmInput[3].Rating
    /\ Len(uniqueMovies) = 2

\* the keys of the ScoredItems with at least t observations
AtLeast(t) == {moviesList[i].URL : i \in {i \in DOMAIN moviesList : moviesList[i].VoteCount >= t}}

\* C10: every view holds exactly the items with observationCount >= its
\* threshold; of two views of one session the one with the larger threshold
\* is never the larger; a group rated [7,8] is shown at 2 and not at 3.
C10_ThresholdFilter ==
    /\ srPc = "AwaitAction" =>
          BagOfSeq(moviesFiltered) =
             BagOfSeq(SelectSeq(moviesList, LAMBDA m : m.VoteCount >= threshold))
    /\ \A v \in views : v.keys = AtLeast(v.t)
    /\ \A v1, v2 \in views :
          v1.t <= v2.t => Cardinality(v2.keys) <= Cardinality(v1.keys)
    /\ \A i \in DOMAIN moviesList : \A v \in views :
          moviesList[i].Ratings = <<7, 8>> =>
             /\ v.t = 2 => moviesList[i].URL \in v.keys
             /\ v.t = 3 => moviesList[i].URL \notin v.keys

\* a session that showed a group rated [7,8] at threshold 2 and hid it at 3
C10_Witness ==
    /\ srPc = "AwaitAction"
    /\ \E i \in DOMAIN moviesList :
          /\ moviesList[i].Ratings = <<7, 8>>
          /\ \E v \in views : v.t = 2 /\ moviesList[i].URL \in v.keys
          /\ \E v \in views : v.t = 3 /\ moviesList[i].URL \notin v.keys /\ v.keys # {}

SameAvg(a, b) == a.num * b.den = b.num * a.den

\* C11: in the list showResults prints, of two adjacent entries the earlier
\* one has the higher average, or the same average and at least as many
\* ratings
C11_RankedOrder ==
    \A i \in 1..(Len(moviesFiltered) - 1) :
        LET a == moviesFiltered[i]
            b == moviesFiltered[i + 1]
        IN  \/ AvgGreater(a.AvgRating, b.AvgRating)
            \/ SameAvg(a.AvgRating, b.AvgRating) /\ a.VoteCount >= b.VoteCount

\* three entries are shown: the best average first although it has the fewest
\* ratings, then two of equal average with the more rated one first
C11_Witness ==
    /\ srPc = "AwaitAction"
    /\ Len(moviesFiltered) = 3
    /\ [i \in 1..3 |-> moviesFiltered[i].URL] = <<KeyC, KeyB, KeyA>>
    /\ moviesFiltered[1].VoteCount < moviesFiltered[2].VoteCount
    /\ SameAvg(moviesFiltered[2].AvgRating, moviesFiltered[3].AvgRating)
    /\ moviesFiltered[2].VoteCount > moviesFiltered[3].VoteCount

\* C20: the threshold the filter of showResults is run with lies between 1
\* and friendsNr
C20_Claimed == srPc = "ShowRanked" => threshold \in 1..friendsNr

\* the keys of the entries of list that have at least t ratings
KeysAtLeast(list, t) == {list[i].URL : i \in {j \in DOMAIN list : list[j].VoteCount >= t}}

\* C18: no step of showResults changes the full collection; every view shown
\* holds exactly the entries of the full collection with at least the current
\* threshold's ratings, so the same threshold always shows the same set and a
\* lower threshold shows everything a higher one showed
C18_ViewFromFullCollection ==
    [][/\ moviesList' = moviesList
       /\ (srPc = "ShowRanked" /\ srPc' = "AwaitAction")
             => KeysOf(moviesFiltered') = KeysAtLeast(moviesList, threshold)
       /\ \A v \in views', w \in views' :
             /\ v.t = w.t => v.keys = w.keys
             /\ v.t <= w.t => w.keys \subseteq v.keys]_vars

\* a view under a higher threshold hid some entry, and the view now shown
\* under a lower threshold has every entry with that many ratings
C18_Witness ==
    /\ srPc = "AwaitAction"
    /\ \E v \in views : v.t > threshold /\ v.keys # KeysOf(moviesFiltered)
    /\ KeysOf(moviesFiltered) = KeysAtLeast(moviesList, threshold)
    /\ typed = "number"

\* C13: showResults starts awaiting a threshold; a view is shown only after a
\* line checkNumber accepted with a threshold other than 0; from the action
\* prompt "s" leads to the export and the end, "x" to the confirmation and
\* from there only "y" to the end, any other line to a new threshold prompt;
\* nothing happens after the end
C13_StateMachine ==
    /\ srPc = "AwaitThreshold"
    /\ [][/\ srPc = "AwaitThreshold" =>
                \/ srPc' = "AwaitThreshold" /\ threshold' = 0
                \/ /\ srPc' = "ShowRanked"
                   /\ typed' = "number"
                   /\ threshold' # 0 /\ threshold' <= friendsNr
          /\ srPc = "ShowRanked" =>
                srPc' = "AwaitAction" /\ threshold # 0 /\ threshold' = threshold
          /\ srPc = "AwaitAction" =>
                \/ srPc' = "AwaitThreshold" /\ typed' \notin {"x", "s"} /\ threshold' = 0
                \/ srPc' = "Exported" /\ typed' = "s"
                \/ srPc' = "ConfirmQuit" /\ typed' = "x"
          /\ srPc = "ConfirmQuit" =>
                \/ srPc' = "Ended" /\ typed' = "y"
                \/ srPc' = "ShowRanked" /\ typed' # "y" /\ threshold' = threshold
          /\ srPc \notin {"Exported", "Ended"}]_vars

\* a session that showed views under two thresholds and ended by a confirmed
\* quit
C13_Witness ==
    /\ srPc = "Ended"
    /\ typed = "y"
    /\ \E v \in views, w \in views : v.t # w.t

\* the ratings of list that lie in 0..9, in order
InTable(list) == SelectSeq(list, LAMBDA r : r \in 0..9)

\* the table of the weighted score, by rating
TableValue(r) ==
    CASE r = 0 -> 100 [] r = 1 -> 95 [] r = 2 -> 80 [] r = 3 -> 65 [] r = 4 -> 40
      [] r = 5 -> 20 [] r = 6 -> 5 [] OTHER -> 0

\* C12: weighted maps the ratings in 0..9 through the table, drops the others,
\* and returns the mean of the mapped values alone
C12_WeightedScore ==
    scPc = "done" =>
        LET kept == InTable(scList)
        IN  /\ wList = [k \in DOMAIN kept |-> TableValue(kept[k])]
            /\ Len(wList) = Len(kept)
            /\ Len(kept) > 0 =>
                  scScore.num * Len(kept) = SumOf(wList, 1) * scScore.den
            /\ Len(kept) = 0 => scScore.num = 0

\* ratings [2, 15] gave the mapped list [80] and the score 80
C12_Witness ==
    /\ scPc = "done"
    /\ scList = <<2, 15>>
    /\ wList = <<80>>
    /\ scScore.num = 80 * scScore.den

RECURSIVE CountIn(_, _)
\* how many elements, with repetition, the bag b has among those of S
CountIn(b, S) ==
    IF S = {} THEN 0
    ELSE LET e == CHOOSE x \in S : TRUE IN b[e] + CountIn(b, S \ {e})

RECURSIVE RatingSumIn(_, _)
\* the sum of the ratings, with repetition, the bag b has among those of S
RatingSumIn(b, S) ==
    IF S = {} THEN 0
    ELSE LET e == CHOOSE x \in S : TRUE IN e.Rating * b[e] + RatingSumIn(b, S \ {e})

\* the movies of the bag b that carry the URL k
WithUrl(b, k) == {e \in BagToSet(b) : e.URL = k}

\* C14: what mergeMovies and processResults return depends on the multiset of
\* the movies handed in and not on their order: there is exactly one result
\* for every URL of the multiset, with the count of that URL's movies as its
\* VoteCount and the mean of their ratings as its AvgRating
C14_OrderInsensitive ==
    mmPc = "processed" =>
        LET b == BagOfSeq(mmInput)
            urls == {e.URL : e \in BagToSet(b)}
        IN  /\ {results[i].URL : i \in DOMAIN results} = urls
            /\ Len(results) = Cardinality(urls)
            /\ \A i \in DOMAIN results :
                  LET n == CountIn(b, WithUrl(b, results[i].URL))
                      sum == RatingSumIn(b, WithUrl(b, results[i].URL))
                  IN  /\ results[i].VoteCount = n
                      /\ results[i].AvgRating.num * n = sum * results[i].AvgRating.den

\* the movies of one URL arrived with another URL's movie between them and
\* with different ratings, and were merged into one result
C14_Witness ==
    /\ mmPc = "processed"
    /\ Len(mmInput) >= 3
    /\ mmInput[1].URL = mmInput[3].URL
    /\ mmInput[1].URL # mmInput[2].URL
    /\ mmInput[1].Rating # mmInput[3].Rating
    /\ UrlLess(mmInput[2], mmInput[1])
    /\ Len(results) = 2

\* C15: every crawl comes to its end (or is still going when the items it is
\* followed for are reached)
C15_Claimed == <>(crPc = "returned" \/ ~Followed)

\* the items one page of the crawled listing yields
PageYield(doc) ==
    CASE crKind = "findFollowing" ->
            LET kept == SelectSeq(doc.posters, LAMBDA e : e.hasHref)
            IN  [k \in DOMAIN kept |-> ReplaceSlashes(kept[k].href)]
      [] crKind = "getAllMovies" ->
            LET kept == SelectSeq(doc.posters, LAMBDA e : e.hasLink)
            IN  [k \in DOMAIN kept |-> kept[k].link]
      [] OTHER -> RatedItems(doc.posters, 1)

RECURSIVE YieldOfLog(_)
\* the items of the pages fetched up to the i-th, in the order of fetching
YieldOfLog(i) ==
    IF i = 0 THEN <<>> ELSE YieldOfLog(i - 1) \o PageYield(crSite[crLog[i]])

\* C16: a crawl a failed fetch ended has returned; it fetches nothing more
\* and what it returns is what the pages fetched before yielded, in order
C16_FailedFetchEndsCrawl ==
    crBroke =>
        /\ crPc = "returned"
        /\ ~ENABLED NextPages
        /\ crItems = YieldOfLog(Len(crLog))

\* a fetch failed after two pages were fetched, the later of which had a
\* next-link, and the items of both are returned
C16_Witness ==
    /\ crBroke
    /\ crPc = "returned"
    /\ Len(crLog) = 2
    /\ crSite[crLog[2]].hasNext
    /\ PageYield(crSite[crLog[1]]) # <<>>
    /\ PageYield(crSite[crLog[2]]) # <<>>
    /\ crItems = PageYield(crSite[crLog[1]]) \o PageYield(crSite[crLog[2]])

\* C17: findFollowing and getAllMovies go from every fetched page to its
\* next-link, whatever the page yielded; they end only at a page without a
\* next-link or at a failed fetch, and their list is what the fetched pages
\* yielded, in the order of fetching
C17_AllItemsCrawl ==
    crKind \in {"findFollowing", "getAllMovies"} =>
        /\ crItems = YieldOfLog(Len(crLog))
        /\ \A i \in 1..(Len(crLog) - 1) :
              crSite[crLog[i]].hasNext /\ crLog[i + 1] = crSite[crLog[i]].next
        /\ (crPc = "returned" /\ ~crBroke) =>
              crLog # <<>> /\ ~crSite[crLog[Len(crLog)]].hasNext
        /\ (crPc = "loop" /\ crLog # <<>>) =>
              /\ crSite[crLog[Len(crLog)]].hasNext
              /\ crUrl = crSite[crLog[Len(crLog)]].next

\* a crawl went on from a page that yielded nothing to a page that yielded
\* something, and ended there for want of a next-link
C17_Witness ==
    /\ crKind \in {"findFollowing", "getAllMovies"}
    /\ crPc = "returned"
    /\ ~crBroke
    /\ Len(crLog) = 3
    /\ PageYield(crSite[crLog[2]]) = <<>>
    /\ PageYield(crSite[crLog[3]]) # <<>>
    /\ crItems = PageYield(crSite[crLog[1]]) \o PageYield(crSite[crLog[3]])

\* C19: under fair scheduling collectMoviesParallel returns, whatever the
\* number of friends, with every worker gone and every slot free; a worker
\* goes from waiting for a slot to holding one, to its crawl, to writing its
\* result, to giving the slot back and to its end, and in no other way, so
\* every worker acquired a slot and released it; a worker with its result in
\* hand can always write it to moviesChan
C19_AlwaysReturns ==
    /\ <>(mainPc = "returned" /\ semaphore = 0 /\ \A w \in Workers : wpc[w] = "exited")
    /\ [](\A w \in Workers : wpc[w] = "send" => ENABLED Send(w))
    /\ [][\A w \in Workers :
            wpc'[w] # wpc[w] =>
               \/ wpc[w] = "none" /\ wpc'[w] = "acquire"
               \/ /\ wpc[w] = "acquire" /\ wpc'[w] = "crawl"
                  /\ semaphore' = semaphore + 1 /\ semaphore' <= numWorkers
               \/ wpc[w] = "crawl" /\ wpc'[w] = "send"
               \/ wpc[w] = "send" /\ wpc'[w] = "release" /\ Len(moviesChan') = Len(moviesChan) + 1
               \/ wpc[w] = "release" /\ wpc'[w] = "wgdone" /\ semaphore' = semaphore - 1
               \/ wpc[w] = "wgdone" /\ wpc'[w] = "exited"]_vars

\* collectMoviesParallel returned for more friends than slots: all workers
\* have exited, every slot is free and allMovies holds their results
C19_Witness ==
    /\ mainPc = "returned"
    /\ Len(friends) > numWorkers
    /\ numWorkers > 0
    /\ \A w \in Workers : wpc[w] = "exited"
    /\ semaphore = 0
    /\ allMovies # <<>>

====
